---- MODULE Spec2Model ----
(***************************************************************************)
(* mnem_to_entropy: BIP39 mnemonic -> entropy, one phrase at a time        *)
(* (process_mnemonic and its helpers) and in bulk (main: parallel map,     *)
(* sort by index, partition, report, exit status).                         *)
(*                                                                         *)
(* A phrase is represented by the token sequence split_whitespace yields.  *)
(* A token that is a word of the English word list is represented by its   *)
(* position in the list (0..2047), any other token by a number >= 2048.    *)
(* Option values are <<>> (None) and <<v>> (Some v); Result values are     *)
(* records [tag |-> "Ok" / "Err", v |-> payload]; a String produced by the *)
(* program is a sequence of one-character strings.                         *)
(***************************************************************************)
EXTENDS Integers, Sequences, FiniteSets, TLC

\* ------------------------------------------------------------------------
\* Program constants
\* ------------------------------------------------------------------------
BitsPerWord == 11

WordListLen == 2048

ValidWordCounts == {12, 15, 18, 21, 24}

ShownInvalidWords == 3

\* ------------------------------------------------------------------------
\* Bounds of the checked instances
\* ------------------------------------------------------------------------
\* number of distinct tokens outside the word list
NumUnknown == 2

\* longest freely chosen token sequence
MaxShort == 4

\* longest freely chosen batch
MaxBatch == 3

\* size of the worker pool; the runs of a smaller pool are among its runs
PoolSize == 2

\* ------------------------------------------------------------------------
\* Option / Result
\* ------------------------------------------------------------------------
None == << >>

Some(v) == << v >>

Ok(v) == [tag |-> "Ok", v |-> v]

Err(e) == [tag |-> "Err", v |-> e]

\* ------------------------------------------------------------------------
\* Word list: wordlist.iter().position(|&w| w == *word)
\* ------------------------------------------------------------------------
position(word) == IF word \in 0..(WordListLen - 1) THEN Some(word) ELSE None

\* ------------------------------------------------------------------------
\* SHA-256 of a message of at most 55 bytes (one block), on 32-bit words
\* kept as << high 16 bits, low 16 bits >>.  Used by Mnemonic::from_str.
\* ------------------------------------------------------------------------
RECURSIVE BitXor(_, _, _)
BitXor(a, b, n) ==
    IF n = 0 THEN 0
    ELSE ((a + b) % 2) + 2 * BitXor(a \div 2, b \div 2, n - 1)

RECURSIVE BitAnd(_, _, _)
BitAnd(a, b, n) ==
    IF n = 0 THEN 0
    ELSE ((a % 2) * (b % 2)) + 2 * BitAnd(a \div 2, b \div 2, n - 1)

XorNibble == [a \in 0..15 |-> [b \in 0..15 |-> BitXor(a, b, 4)]]

AndNibble == [a \in 0..15 |-> [b \in 0..15 |-> BitAnd(a, b, 4)]]

\* a bitwise operation on 16 bits, nibble by nibble
Bitwise16(table, a, b) ==
    table[a \div 4096][b \div 4096] * 4096
        + table[(a \div 256) % 16][(b \div 256) % 16] * 256
        + table[(a \div 16) % 16][(b \div 16) % 16] * 16
        + table[a % 16][b % 16]

Bitwise32(table, a, b) == << Bitwise16(table, a[1], b[1]), Bitwise16(table, a[2], b[2]) >>

Xor32(a, b) == Bitwise32(XorNibble, a, b)

And32(a, b) == Bitwise32(AndNibble, a, b)

Not32(a) == << 65535 - a[1], 65535 - a[2] >>

Add32(a, b) ==
    LET lo == a[2] + b[2]
    IN  << (a[1] + b[1] + (lo \div 65536)) % 65536, lo % 65536 >>

Shr32(a, n) ==
    IF n >= 16 THEN << 0, a[1] \div (2 ^ (n - 16)) >>
    ELSE << a[1] \div (2 ^ n),
            (a[2] \div (2 ^ n)) + (a[1] % (2 ^ n)) * (2 ^ (16 - n)) >>

Rotr32(a, n) ==
    LET s == IF n >= 16 THEN << a[2], a[1] >> ELSE a
        m == n % 16
    IN  << (s[1] \div (2 ^ m)) + (s[2] % (2 ^ m)) * (2 ^ (16 - m)),
           (s[2] \div (2 ^ m)) + (s[1] % (2 ^ m)) * (2 ^ (16 - m)) >>

Ch(e, f, g) == Xor32(And32(e, f), And32(Not32(e), g))

Maj(a, b, c) == Xor32(Xor32(And32(a, b), And32(a, c)), And32(b, c))

BigSigma0(a) == Xor32(Xor32(Rotr32(a, 2), Rotr32(a, 13)), Rotr32(a, 22))

BigSigma1(e) == Xor32(Xor32(Rotr32(e, 6), Rotr32(e, 11)), Rotr32(e, 25))

SmallSigma0(w) == Xor32(Xor32(Rotr32(w, 7), Rotr32(w, 18)), Shr32(w, 3))

SmallSigma1(w) == Xor32(Xor32(Rotr32(w, 17), Rotr32(w, 19)), Shr32(w, 10))

sha256_K ==
   << <<17034, 12184>>, <<28983, 17553>>, <<46528, 64463>>, <<59829, 56229>>,
      <<14678, 49755>>, <<23025, 4593>>, <<37439, 33444>>, <<43804, 24277>>,
      <<55303, 43672>>, <<4739, 23297>>, <<9265, 34238>>, <<21772, 32195>>,
      <<29374, 23924>>, <<32990, 45566>>, <<39900, 1703>>, <<49563, 61812>>,
      <<58523, 27073>>, <<61374, 18310>>, <<4033, 40390>>, <<9228, 41420>>,
      <<11753, 11375>>, <<19060, 33962>>, <<23728, 43484>>, <<30457, 35034>>,
      <<38974, 20818>>, <<43057, 50797>>, <<45059, 10184>>, <<48985, 32711>>,
      <<50912, 3059>>, <<54695, 37191>>, <<1738, 25425>>, <<5161, 10599>>,
      <<10167, 2693>>, <<11803, 8504>>, <<19756, 28156>>, <<21304, 3347>>,
      <<25866, 29524>>, <<30314, 2747>>, <<33218, 51502>>, <<37490, 11397>>,
      <<41663, 59553>>, <<43034, 26187>>, <<49739, 35696>>, <<51052, 20899>>,
      <<53650, 59417>>, <<54937, 1572>>, <<62478, 13701>>, <<4202, 41072>>,
      <<6564, 49430>>, <<7735, 27656>>, <<10056, 30540>>, <<13488, 48309>>,
      <<14620, 3251>>, <<20184, 43594>>, <<23452, 51791>>, <<26670, 28659>>,
      <<29839, 33518>>, <<30885, 25455>>, <<33992, 30740>>, <<36039, 520>>,
      <<37054, 65530>>, <<42064, 27883>>, <<48889, 41975>>, <<50801, 30962>> >>

sha256_H0 ==
   << <<27145, 58983>>, <<47975, 44677>>, <<15470, 62322>>, <<42319, 62778>>,
      <<20750, 21119>>, <<39685, 26764>>, <<8067, 55723>>, <<23520, 52505>> >>

\* the message, 0x80, zeros, and the 64-bit bit length, as 16 words
sha256_pad(bytes) ==
    LET n == Len(bytes)
        b(i) == IF i <= n THEN bytes[i]
                ELSE IF i = n + 1 THEN 128
                ELSE IF i = 63 THEN (8 * n) \div 256
                ELSE IF i = 64 THEN (8 * n) % 256
                ELSE 0
    IN  [t \in 1..16 |-> << b(4 * t - 3) * 256 + b(4 * t - 2),
                            b(4 * t - 1) * 256 + b(4 * t) >>]

\* W[t] for t >= 16 (here 1-based: W[t + 1])
sha256_next_w(W, t) ==
    Add32(Add32(SmallSigma1(W[t - 2]), W[t - 7]),
          Add32(SmallSigma0(W[t - 15]), W[t - 16]))

\* W extended by its next `count` words
RECURSIVE sha256_extend(_, _)
sha256_extend_more(W, count) == IF W = W THEN sha256_extend(W, count) ELSE W

sha256_extend(W, count) ==
    IF count = 0 THEN W
    ELSE IF count = 1 THEN Append(W, sha256_next_w(W, Len(W) + 1))
    ELSE sha256_extend_more(sha256_extend(W, count \div 2), count - count \div 2)

sha256_schedule(W) == sha256_extend(W, 64 - Len(W))

sha256_t1(s, k, w) ==
    Add32(Add32(Add32(s[8], BigSigma1(s[5])), Add32(Ch(s[5], s[6], s[7]), k)), w)

sha256_t2(s) == Add32(BigSigma0(s[1]), Maj(s[1], s[2], s[3]))

\* a, b, c, d, e, f, g, h after one round
sha256_round(s, t1, t2) ==
    << Add32(t1, t2), s[1], s[2], s[3], Add32(s[4], t1), s[5], s[6], s[7] >>

\* the rounds first..last applied to s
RECURSIVE sha256_rounds(_, _, _, _)
sha256_rounds_more(s, W, first, last) ==
    IF s = s THEN sha256_rounds(s, W, first, last) ELSE s

sha256_rounds(s, W, first, last) ==
    IF first = last
    THEN sha256_round(s, sha256_t1(s, sha256_K[first], W[first]), sha256_t2(s))
    ELSE sha256_rounds_more(sha256_rounds(s, W, first, (first + last) \div 2),
                            W, (first + last) \div 2 + 1, last)

sha256_first_byte(s) == Add32(sha256_H0[1], s[1])[1] \div 256

\* check[0]: the first byte of the digest
sha256_byte0(bytes) ==
    sha256_first_byte(sha256_rounds(sha256_H0, sha256_schedule(sha256_pad(bytes)), 1, 64))

\* ------------------------------------------------------------------------
\* Bits of word indices and bytes of bits, as both decoders compute them.
\* A bit vector is a function on 0..n-1 (a Vec<bool>); a byte buffer is a
\* sequence (element i of the Vec<u8> is bytes[i + 1]).
\* ------------------------------------------------------------------------
\* the bits of an index taken from the low end
index_bit_lsb_first(index, j) == (index \div (2 ^ j)) % 2 = 1

\* (index & (1 << (10 - j))) != 0
index_bit(index, j) == (index \div (2 ^ (10 - j))) % 2 = 1

\* for j in 0..11 { bits[i * 11 + j] = (index & (1 << (10 - j))) != 0; }
set_word_bits(bits, i, index) ==
    [bit_pos \in DOMAIN bits |->
        IF bit_pos \in (i * BitsPerWord)..(i * BitsPerWord + 10)
        THEN index_bit(index, bit_pos - i * BitsPerWord)
        ELSE bits[bit_pos]]

\* for (i, &index) in indices.iter().enumerate() { ... }
RECURSIVE fill_bits(_, _, _)
fill_next(bits, indices, i) == IF bits = bits THEN fill_bits(bits, indices, i) ELSE bits

fill_bits(bits, indices, i) ==
    IF i >= Len(indices) THEN bits
    ELSE fill_next(set_word_bits(bits, i, indices[i + 1]), indices, i + 1)

\* let total_bits = indices.len() * 11; let mut bits = vec![false; total_bits]; ...
indices_to_bits(indices) ==
    LET total_bits == Len(indices) * BitsPerWord
    IN  fill_bits([bit_pos \in 0..(total_bits - 1) |-> FALSE], indices, 0)

\* byte |= 1 << (7 - j)
or_shl(byte, j) ==
    LET m == 2 ^ (7 - j)
    IN  IF (byte \div m) % 2 = 1 THEN byte ELSE byte + m

\* for (j, &bit) in chunk.iter().enumerate() { if bit { byte |= 1 << (7 - j); } }
RECURSIVE pack_chunk(_, _, _)
pack_chunk(chunk, j, byte) ==
    IF j >= Len(chunk) THEN byte
    ELSE pack_chunk(chunk, j + 1, IF chunk[j + 1] THEN or_shl(byte, j) ELSE byte)

\* bits.chunks(8): chunk i holds bits 8i .. min(8i + 8, len) - 1
chunks8(bits, nbits, i) ==
    LET last == IF 8 * i + 8 <= nbits THEN 8 ELSE nbits - 8 * i
    IN  [j \in 1..last |-> bits[8 * i + j - 1]]

\* the byte count rounded down: the bits of the last, partial chunk are lost
bits_to_bytes_rounded_down(bits, total_bits) ==
    LET num_bytes == total_bits \div 8
    IN  [i \in 1..num_bytes |-> pack_chunk(chunks8(bits, total_bits, i - 1), 0, 0)]

\* let num_bytes = (total_bits + 7) / 8; ... entropy[i] = byte
bits_to_bytes(bits, total_bits) ==
    LET num_bytes == (total_bits + 7) \div 8
    IN  [i \in 1..num_bytes |-> pack_chunk(chunks8(bits, total_bits, i - 1), 0, 0)]

\* ------------------------------------------------------------------------
\* Rendering of an entropy buffer
\* ------------------------------------------------------------------------
HexChars == << "0", "1", "2", "3", "4", "5", "6", "7",
               "8", "9", "a", "b", "c", "d", "e", "f" >>

\* hex::encode(&entropy)
hex_encode(bytes) ==
    [k \in 1..(2 * Len(bytes)) |->
        IF k % 2 = 1 THEN HexChars[(bytes[(k + 1) \div 2] \div 16) + 1]
        ELSE HexChars[(bytes[k \div 2] % 16) + 1]]

\* a u8 in decimal
RECURSIVE decimal(_)
decimal(n) ==
    IF n < 10 THEN << HexChars[n + 1] >>
    ELSE decimal(n \div 10) \o << HexChars[(n % 10) + 1] >>

RECURSIVE debug_items(_, _)
debug_items(bytes, i) ==
    IF i > Len(bytes) THEN << >>
    ELSE (IF i > 1 THEN << ",", " " >> ELSE << >>)
         \o decimal(bytes[i]) \o debug_items(bytes, i + 1)

\* format!("{:?}", entropy)
debug_format(bytes) == << "[" >> \o debug_items(bytes, 1) \o << "]" >>

\* if hex { hex::encode(&entropy) } else { format!("{:?}", entropy) }
render(entropy, hex) == IF hex THEN hex_encode(entropy) ELSE debug_format(entropy)

\* ------------------------------------------------------------------------
\* The phrases the instances are run on
\* ------------------------------------------------------------------------
UnknownTokens == WordListLen..(WordListLen + NumUnknown - 1)

\* a word of the list, from its middle
KnownWord == WordListLen \div 2

\* up to MaxShort tokens outside the list, and up to MaxShort words of it
ShortSeqs ==
    UNION {[1..n -> UnknownTokens] : n \in 0..MaxShort}
        \cup {[i \in 1..n |-> KnownWord] : n \in 1..MaxShort}

EntropyLens == {16, 20, 24, 28, 32}

FillByte(pattern, i) ==
    CASE pattern = "zero" -> 0
      [] pattern = "ones" -> 255
      [] OTHER -> (i * 73 + 41) % 256

SeedEntropies ==
    {[i \in 1..n |-> FillByte(pattern, i)] :
        n \in EntropyLens, pattern \in {"zero", "ones", "mixed"}}

RECURSIVE BitsValue(_, _, _)
\* the number whose binary digits are bit(from), ..., bit(from + n - 1)
BitsValue(bit(_), from, n) ==
    IF n = 0 THEN 0
    ELSE 2 * BitsValue(bit, from, n - 1) + bit(from + n - 1)

\* the words of the bits of ent followed by the leading bits of digest0
PhraseOfBits(ent, digest0) ==
    LET ENT == 8 * Len(ent)
        bit(k) == IF k < ENT THEN (ent[(k \div 8) + 1] \div (2 ^ (7 - (k % 8)))) % 2
                  ELSE (digest0 \div (2 ^ (7 - (k - ENT)))) % 2
    IN  [w \in 1..((ENT + ENT \div 32) \div BitsPerWord) |->
            BitsValue(bit, (w - 1) * BitsPerWord, BitsPerWord)]

\* BIP39 generation: the entropy's bits, then the first ENT/32 bits of its digest
ValidPhraseOf(ent) == PhraseOfBits(ent, sha256_byte0(ent))

ValidPhrases == {ValidPhraseOf(e) : e \in SeedEntropies}

\* bit k (0 = last) of the checksum segment inverted
FlipChecksumBit(words, k) ==
    LET last == words[Len(words)]
        m == 2 ^ k
    IN  [words EXCEPT ![Len(words)] =
            IF (last \div m) % 2 = 1 THEN last - m ELSE last + m]

Overwrite(base, short, at) ==
    [i \in 1..Len(base) |->
        IF i >= at /\ i < at + Len(short) THEN short[i - at + 1] ELSE base[i]]

\* the 12-word phrase of the mixed bytes and the 15-word phrase of zeros
IsOverwriteBase(p) ==
    \/ Len(p) = 12 /\ p[1] # 0 /\ p[1] # WordListLen - 1
    \/ Len(p) = 15 /\ p[1] = 0

\* the tokens of short at every other place of base, from the first
Interleave(base, short) ==
    [i \in 1..Len(base) |->
        IF i % 2 = 1 /\ (i + 1) \div 2 <= Len(short) THEN short[(i + 1) \div 2] ELSE base[i]]

Overwrites(b, t) ==
    {Overwrite(b, t, 1), Overwrite(b, t, Len(b) - Len(t) + 1), Interleave(b, t)}

OffCounts(p) == {SubSeq(p, 1, Len(p) - 1), Append(p, KnownWord)}

\* the valid phrases and what is derived from them
DerivedPhrases(valid) ==
    valid
        \cup UNION {{FlipChecksumBit(p, k) : k \in 0..((Len(p) \div 3) - 1)} : p \in valid}
        \cup UNION {Overwrites(b, t) : b \in {p \in valid : IsOverwriteBase(p)}, t \in ShortSeqs}
        \cup UNION {OffCounts(p) : p \in valid}

PhrasePool == ShortSeqs \cup DerivedPhrases(ValidPhrases)

\* ------------------------------------------------------------------------
\* The bip39 crate, English word list only: Mnemonic::from_str, to_entropy
\* ------------------------------------------------------------------------
\* bits[i * 11 + j] = idx >> (10 - j) & 1 == 1
bip39_bits(indices) ==
    [k \in 0..(Len(indices) * BitsPerWord - 1) |->
        (indices[(k \div BitsPerWord) + 1] \div (2 ^ (10 - (k % BitsPerWord)))) % 2 = 1]

\* if bits[i * 8 + j] { entropy[i] += 1 << (7 - j); }
bip39_entropy(indices) ==
    LET bits == bip39_bits(indices)
        bit(k) == IF bits[k] THEN 1 ELSE 0
        nb_bytes_entropy == (Len(indices) \div 3) * 4
    IN  [i \in 1..nb_bytes_entropy |-> BitsValue(bit, 8 * (i - 1), 8)]

WellFormed(words) ==
    /\ Len(words) \in ValidWordCounts
    /\ \A i \in 1..Len(words) : words[i] < WordListLen

\* a value looked up in a table computed once, or else computed
LookupOr(table, key, computed) == IF key \in DOMAIN table THEN table[key] ELSE computed

\* the digests of the entropies that occur, as an enumerated function
Sha256Memo ==
    [e \in {bip39_entropy(p) : p \in {q \in PhrasePool : WellFormed(q)}} |-> sha256_byte0(e)]
        @@ << >>

\* sha256::Hash::hash(&entropy[0..nb_bytes_entropy])[0]
sha256_check0(entropy) == LookupOr(Sha256Memo, entropy, sha256_byte0(entropy))

\* Mnemonic::from_str: word count, every word in the list, checksum
Mnemonic_from_str(words) ==
    LET nb_words == Len(words)
    IN  IF nb_words < 12 \/ nb_words % 3 # 0 \/ nb_words > 24
        THEN Err("BadWordCount")
        ELSE IF \E i \in 1..nb_words : position(words[i]) = None
        THEN Err("UnknownWord")
        ELSE LET bits == bip39_bits(words)
                 nb_bytes_entropy == (nb_words \div 3) * 4
                 check == sha256_check0(bip39_entropy(words))
             IN  IF \E i \in 0..((nb_bytes_entropy \div 4) - 1) :
                        bits[8 * nb_bytes_entropy + i] # ((check \div (2 ^ (7 - i))) % 2 = 1)
                 THEN Err("InvalidChecksum")
                 ELSE Ok(words)

\* Mnemonic::to_entropy
Mnemonic_to_entropy(mnemonic) == bip39_entropy(mnemonic)

\* ------------------------------------------------------------------------
\* main.rs: the decoders
\* ------------------------------------------------------------------------
\* if let Ok(mnemonic) = ... { return Some(mnemonic.to_entropy()); } None
entropy_if_ok(parsed) ==
    IF parsed.tag = "Ok" THEN Some(Mnemonic_to_entropy(parsed.v)) ELSE None

try_bip39_english(mnemonic_str) == entropy_if_ok(Mnemonic_from_str(mnemonic_str))

\* an error text: its format string and the values formatted into it
Message(fmt, values) == [fmt |-> fmt, args |-> values]

IsInvalidWord(word) == position(word) = None

\* the last n elements instead of the first
take_from_end(seq, n) ==
    SubSeq(seq, IF Len(seq) < n THEN 1 ELSE Len(seq) - n + 1, Len(seq))

\* invalid_words.iter().take(3)
take(seq, n) == SubSeq(seq, 1, IF Len(seq) < n THEN Len(seq) ELSE n)

\* the word count examined before the words
analyze_mnemonic_count_first(mnemonic_str) ==
    LET words == mnemonic_str
        word_count == Len(words)
        invalid_words == SelectSeq(words, IsInvalidWord)
    IN  IF word_count \notin ValidWordCounts
        THEN Message("WrongWordCount", << word_count >>)
        ELSE IF invalid_words # << >>
        THEN Message("InvalidWords", << take(invalid_words, ShownInvalidWords) >>)
        ELSE Message("BadChecksum", << >>)

analyze_mnemonic(mnemonic_str) ==
    LET words == mnemonic_str
        word_count == Len(words)
        invalid_words == SelectSeq(words, IsInvalidWord)
    IN  IF invalid_words # << >>
        THEN Message("InvalidWords", << take(invalid_words, ShownInvalidWords) >>)
        ELSE IF word_count \notin ValidWordCounts
        THEN Message("WrongWordCount", << word_count >>)
        ELSE Message("BadChecksum", << >>)

\* for word in &words { match position { Some(idx) => indices.push(idx), None => return Err } }
RECURSIVE words_to_indices(_, _, _)
words_to_indices(words, i, indices) ==
    IF i > Len(words) THEN Ok(indices)
    ELSE LET p == position(words[i])
         IN  IF p = None THEN Err(analyze_mnemonic(words))
             ELSE words_to_indices(words, i + 1, Append(indices, p[1]))

decode_mnemonic_ignore_checksum(mnemonic_str) ==
    LET words == mnemonic_str
        looked == words_to_indices(words, 1, << >>)
    IN  IF looked.tag = "Err" THEN looked
        ELSE LET indices == looked.v
                 total_bits == Len(indices) * BitsPerWord
                 bits == indices_to_bits(indices)
             IN  IF Len(words) \notin ValidWordCounts
                 THEN Err(Message("UnsupportedWordCount", << Len(words) >>))
                 ELSE Ok(bits_to_bytes(bits, total_bits))

\* decode_mnemonic_ignore_checksum(mnemonic_str)? and the rendering
rendered(decoded, hex) ==
    IF decoded.tag = "Err" THEN decoded ELSE Ok(render(decoded.v, hex))

\* the fallback taken whether or not ignore_checksum is set
process_after_strict_unconditional_fallback(strict, mnemonic_str, hex, ignore_checksum) ==
    IF strict # None
    THEN [ret |-> Ok(render(strict[1], hex)), calls |-> << "try_bip39_english" >>]
    ELSE [ret |-> rendered(decode_mnemonic_ignore_checksum(mnemonic_str), hex),
          calls |-> << "try_bip39_english", "decode_mnemonic_ignore_checksum" >>]

\* process_mnemonic after its call of try_bip39_english returned `strict`
process_after_strict(strict, mnemonic_str, hex, ignore_checksum) ==
    IF strict # None
    THEN [ret |-> Ok(render(strict[1], hex)), calls |-> << "try_bip39_english" >>]
    ELSE IF ignore_checksum
    THEN [ret |-> rendered(decode_mnemonic_ignore_checksum(mnemonic_str), hex),
          calls |-> << "try_bip39_english", "decode_mnemonic_ignore_checksum" >>]
    ELSE [ret |-> Err(analyze_mnemonic(mnemonic_str)),
          calls |-> << "try_bip39_english", "analyze_mnemonic" >>]

\* with ignore_checksum the strict attempt is left out
process_mnemonic_run_lenient_first(mnemonic_str, hex, ignore_checksum) ==
    IF ignore_checksum
    THEN [ret |-> rendered(decode_mnemonic_ignore_checksum(mnemonic_str), hex),
          calls |-> << "decode_mnemonic_ignore_checksum" >>]
    ELSE process_after_strict(try_bip39_english(mnemonic_str), mnemonic_str, hex, FALSE)

\* process_mnemonic with the functions it called, in order
process_mnemonic_run(mnemonic_str, hex, ignore_checksum) ==
    process_after_strict(try_bip39_english(mnemonic_str), mnemonic_str, hex, ignore_checksum)

process_mnemonic(mnemonic_str, hex, ignore_checksum) ==
    process_mnemonic_run(mnemonic_str, hex, ignore_checksum).ret

\* ------------------------------------------------------------------------
\* main.rs: main
\* ------------------------------------------------------------------------
\* the phrases of the batches
GoodPhrase == ValidPhraseOf([i \in 1..16 |-> 0])

BadChecksumPhrase == FlipChecksumBit(GoodPhrase, 0)

UnknownWordPhrase == Overwrite(GoodPhrase, << WordListLen >>, 1)

BatchPhrases == {GoodPhrase, BadChecksumPhrase, UnknownWordPhrase}

\* process_mnemonic on the phrases of the batches, computed once
ProcessMemo ==
    [k \in (BatchPhrases \cup {<< >>}) \X BOOLEAN \X BOOLEAN |->
        process_mnemonic(k[1], k[2], k[3])] @@ << >>

process_mnemonic_once(mnemonic_str, hex, ignore_checksum) ==
    LookupOr(ProcessMemo, << mnemonic_str, hex, ignore_checksum >>,
             process_mnemonic(mnemonic_str, hex, ignore_checksum))

Success(entropy_str) == [tag |-> "Success", entropy_str |-> entropy_str]

Error(message, mnemonic) == [tag |-> "Error", message |-> message, mnemonic |-> mnemonic]

\* match process_mnemonic(..) { Ok(entropy_str) => Success, Err(e) => Error }
process_result(r, mnemonic_str) ==
    IF r.tag = "Ok" THEN Success(r.v) ELSE Error(r.v, mnemonic_str)

\* the closure of the parallel map, without the progress increment
map_closure(idx, mnemonic_str, hex, ignore_checksum) ==
    << idx, process_result(process_mnemonic_once(mnemonic_str, hex, ignore_checksum),
                           mnemonic_str) >>

\* insertion of one element behind every element whose key is not greater
RECURSIVE insert_by_key(_, _)
insert_by_key(sorted, x) ==
    IF sorted = << >> THEN << x >>
    ELSE IF sorted[Len(sorted)][1] <= x[1] THEN Append(sorted, x)
    ELSE Append(insert_by_key(SubSeq(sorted, 1, Len(sorted) - 1), x), sorted[Len(sorted)])

RECURSIVE sort_from(_, _, _)
sort_from(sorted, seq, i) ==
    IF i > Len(seq) THEN sorted
    ELSE sort_from(insert_by_key(sorted, seq[i]), seq, i + 1)

\* the sort left out
sort_by_key_omitted(seq) == seq

\* sorted_results.sort_by_key(|(idx, _)| *idx): a stable sort
sort_by_key(seq) == sort_from(<< >>, seq, 1)

\* the loop left at the first Error
RECURSIVE partition_until_error(_, _, _, _, _)
partition_until_error(sorted, k, acc, phrases, to_console) ==
    IF k > Len(sorted) THEN acc
    ELSE IF sorted[k][2].tag = "Success"
    THEN partition_until_error(sorted, k + 1,
            [acc EXCEPT
                !.out = IF to_console
                        THEN Append(@, [fmt |-> "Result",
                                        args |-> << sorted[k][1] + 1,
                                                    phrases[sorted[k][1] + 1],
                                                    sorted[k][2].entropy_str >>])
                        ELSE @,
                !.success_results = Append(@, sorted[k][2].entropy_str)],
            phrases, to_console)
    ELSE [acc EXCEPT
            !.error_results = Append(@, << sorted[k][2].mnemonic, sorted[k][2].message >>)]

\* for (idx, result) in sorted_results { match result { ... } }
RECURSIVE partition(_, _, _, _, _)
partition(sorted, k, acc, phrases, to_console) ==
    IF k > Len(sorted) THEN acc
    ELSE LET idx == sorted[k][1]
             result == sorted[k][2]
         IN  IF result.tag = "Success"
             THEN partition(sorted, k + 1,
                    [acc EXCEPT
                        !.out = IF to_console
                                THEN Append(@, Message("Result",
                                        << idx + 1, phrases[idx + 1], result.entropy_str >>))
                                ELSE @,
                        !.success_results = Append(@, result.entropy_str)],
                    phrases, to_console)
             ELSE partition(sorted, k + 1,
                    [acc EXCEPT
                        !.err = IF to_console
                                THEN Append(@, Message("Error",
                                        << idx + 1, result.mnemonic, result.message >>))
                                ELSE @,
                        !.error_results = Append(@, << result.mnemonic, result.message >>)],
                    phrases, to_console)

\* if args.verbose_errors { format!("{} | {}", mnemonic, message) } else { mnemonic.clone() }
error_log_line(entry, verbose_errors) ==
    IF verbose_errors THEN << entry[1], "|", entry[2] >> ELSE << entry[1] >>

\* >= in place of >
error_rate_at_least_half(errors, total) == errors * 100 >= 50 * total

\* error_rate > 50.0, error_rate = (errors as f64 / total as f64) * 100.0
\* (exact on the counts that occur: the quotient is 1/2 exactly or differs
\* from it by far more than the rounding of f64)
error_rate_above_half(errors, total) == errors * 100 > 50 * total

\* !args.skip_invalid && !error_results.is_empty() && error_rate > 50.0
shows_advisory(skip_invalid, errors, total) ==
    /\ ~skip_invalid
    /\ errors # 0
    /\ error_rate_above_half(errors, total)

\* the successes not looked at
all_failed_on_any_error(skip_invalid, errors, successes) ==
    /\ errors # 0
    /\ ~skip_invalid

\* !error_results.is_empty() && success_results.is_empty() && !args.skip_invalid
all_failed(skip_invalid, errors, successes) ==
    /\ errors # 0
    /\ successes = 0
    /\ ~skip_invalid

\* ------------------------------------------------------------------------
\* The batches the instances are run on
\* ------------------------------------------------------------------------
\* the lines of an input file: phrases and blank lines
FileLines == BatchPhrases \cup {<< >>}

\* three valid phrases and two with an unknown word
BulkScenario ==
    << GoodPhrase, UnknownWordPhrase, GoodPhrase, GoodPhrase, UnknownWordPhrase >>

Inputs ==
    {[kind |-> "input_file", text |-> lines] :
        lines \in UNION {[1..n -> FileLines] : n \in 0..MaxBatch} \cup {BulkScenario}}
    \cup {[kind |-> k, text |-> p] : k \in {"mnemonic", "stdin"}, p \in FileLines}

\* the flags; verbose_errors is read only when an error log is asked for
ArgsSet ==
    {a \in [hex : BOOLEAN, ignore_checksum : BOOLEAN, skip_invalid : BOOLEAN,
            verbose_errors : BOOLEAN, output_file : BOOLEAN, error_log : BOOLEAN] :
        a.verbose_errors => a.error_log}

\* ------------------------------------------------------------------------
\* State
\* ------------------------------------------------------------------------
VARIABLES
    \* one function applied to one phrase
    fn_phrase, fn_hex, fn_ignore_checksum, fn_called, fn_ret, fn_calls,
    \* main: the flags of Args (for the two paths, whether one is given)
    args,
    \* what is given as input: the lines of the input file, the --mnemonic
    \* text or the line typed on stdin
    input,
    \* the position main is at
    pc,
    mnemonics, progress_bar,
    \* the parallel region: items not started, items in a worker, the
    \* (idx, result) pairs in the order the workers delivered them
    pending, running, results,
    sorted_results, success_results, error_results,
    \* what was printed, the files written, the exit status
    stdout, stderr, files, exit_code

fn_vars == << fn_phrase, fn_hex, fn_ignore_checksum, fn_called, fn_ret, fn_calls >>

main_vars ==
    << args, input, pc, mnemonics, progress_bar, pending, running,
       results, sorted_results, success_results, error_results,
       stdout, stderr, files, exit_code >>

vars == << fn_vars, main_vars >>

FnIdle ==
    /\ fn_phrase = << >>
    /\ fn_hex = FALSE
    /\ fn_ignore_checksum = FALSE
    /\ fn_called = "none"
    /\ fn_ret = None
    /\ fn_calls = << >>

MainIdle ==
    /\ args = [hex |-> FALSE, ignore_checksum |-> FALSE, skip_invalid |-> FALSE,
               verbose_errors |-> FALSE, output_file |-> FALSE, error_log |-> FALSE]
    /\ input = [kind |-> "mnemonic", text |-> << >>]
    /\ pc = "idle"
    /\ mnemonics = << >>
    /\ progress_bar = None
    /\ pending = {}
    /\ running = {}
    /\ results = << >>
    /\ sorted_results = << >>
    /\ success_results = << >>
    /\ error_results = << >>
    /\ stdout = << >>
    /\ stderr = << >>
    /\ files = [output |-> None, error_log |-> None]
    /\ exit_code = None

\* ------------------------------------------------------------------------
\* The decoders applied to one phrase
\* ------------------------------------------------------------------------
FnInit ==
    /\ fn_phrase \in PhrasePool
    /\ fn_hex \in BOOLEAN
    /\ fn_ignore_checksum \in BOOLEAN
    /\ fn_called = "none"
    /\ fn_ret = None
    /\ fn_calls = << >>
    /\ MainIdle

CallProcessMnemonic ==
    /\ fn_called = "none"
    /\ LET run == process_mnemonic_run(fn_phrase, fn_hex, fn_ignore_checksum)
       IN  /\ fn_ret' = run.ret
           /\ fn_calls' = run.calls
    /\ fn_called' = "process_mnemonic"
    /\ UNCHANGED << fn_phrase, fn_hex, fn_ignore_checksum, main_vars >>

CallDecodeIgnoreChecksum ==
    /\ fn_called = "none"
    /\ fn_ret' = decode_mnemonic_ignore_checksum(fn_phrase)
    /\ fn_called' = "decode_mnemonic_ignore_checksum"
    /\ UNCHANGED << fn_phrase, fn_hex, fn_ignore_checksum, fn_calls, main_vars >>

CallAnalyzeMnemonic ==
    /\ fn_called = "none"
    /\ fn_ret' = analyze_mnemonic(fn_phrase)
    /\ fn_called' = "analyze_mnemonic"
    /\ UNCHANGED << fn_phrase, fn_hex, fn_ignore_checksum, fn_calls, main_vars >>

CallTryBip39English ==
    /\ fn_called = "none"
    /\ fn_ret' = try_bip39_english(fn_phrase)
    /\ fn_called' = "try_bip39_english"
    /\ UNCHANGED << fn_phrase, fn_hex, fn_ignore_checksum, fn_calls, main_vars >>

FnNext ==
    \/ CallProcessMnemonic
    \/ CallDecodeIgnoreChecksum
    \/ CallAnalyzeMnemonic
    \/ CallTryBip39English

SpecFn == FnInit /\ [][FnNext]_vars

\* ------------------------------------------------------------------------
\* Properties of the decoders
\* ------------------------------------------------------------------------
Range(seq) == {seq[i] : i \in 1..Len(seq)}

AllKnown(words) == \A i \in 1..Len(words) : words[i] \in 0..(WordListLen - 1)

CountValid(words) == Len(words) \in ValidWordCounts

\* bit k of the words written as 11 binary digits each, first digit first
WordBit(words, k) ==
    (words[(k \div BitsPerWord) + 1] \div (2 ^ (BitsPerWord - 1 - (k % BitsPerWord)))) % 2

\* BIP39: the last n/3 bits are the leading bits of the digest of the others
ChecksumOk(words) ==
    LET entropy == [b \in 1..((Len(words) \div 3) * 4) |->
                        BitsValue(LAMBDA k : WordBit(words, k), 8 * (b - 1), 8)]
    IN  words = PhraseOfBits(entropy, sha256_check0(entropy))

StrictOk(words) == AllKnown(words) /\ CountValid(words) /\ ChecksumOk(words)

\* all bits of the words, eight to a byte, the last byte filled up with zeros
FullPacking(words) ==
    LET nbits == Len(words) * BitsPerWord
    IN  [b \in 1..((nbits + 7) \div 8) |->
            BitsValue(LAMBDA k : IF k < nbits THEN WordBit(words, k) ELSE 0, 8 * (b - 1), 8)]

\* the number of bytes a rendering shows
ByteCount(str, hex) ==
    IF hex THEN Len(str) \div 2
    ELSE Cardinality({i \in 1..Len(str) : str[i] = ","}) + 1

CalledProcess == fn_called = "process_mnemonic"

\* C4: without ignore_checksum, process_mnemonic succeeds exactly on the
\* phrases that are valid BIP39 (all words known, count in 12/15/18/21/24,
\* checksum right), it never calls decode_mnemonic_ignore_checksum, and a
\* phrase with an unknown word, a bad count or a bad checksum gives no entropy.
C4_StrictOnlyWithoutOptIn ==
    (CalledProcess /\ ~fn_ignore_checksum) =>
        /\ (fn_ret.tag = "Ok") <=> StrictOk(fn_phrase)
        /\ "decode_mnemonic_ignore_checksum" \notin Range(fn_calls)
        /\ fn_ret.tag = "Ok" => fn_ret.v = render(bip39_entropy(fn_phrase), fn_hex)

\* a phrase with a wrong checksum was refused without ignore_checksum
C4_Witness ==
    /\ CalledProcess
    /\ ~fn_ignore_checksum
    /\ AllKnown(fn_phrase) /\ CountValid(fn_phrase) /\ ~ChecksumOk(fn_phrase)
    /\ fn_ret.tag = "Err"

BadChecksumOnly(words) == AllKnown(words) /\ CountValid(words) /\ ~ChecksumOk(words)

\* C5: for a phrase of known words and valid count whose checksum is wrong,
\* strict decoding fails (try_bip39_english gives nothing, process_mnemonic
\* without ignore_checksum reports the checksum), and process_mnemonic with
\* ignore_checksum returns all bits of the phrase packed into bytes.
C5_ChecksumSensitivity ==
    BadChecksumOnly(fn_phrase) =>
        /\ fn_called = "try_bip39_english" => fn_ret = None
        /\ (CalledProcess /\ ~fn_ignore_checksum) =>
                fn_ret = Err(Message("BadChecksum", << >>))
        /\ (CalledProcess /\ fn_ignore_checksum) =>
                fn_ret = Ok(render(FullPacking(fn_phrase), fn_hex))

\* a valid phrase with one checksum bit flipped went through the lenient path
C5_Witness ==
    /\ CalledProcess
    /\ fn_ignore_checksum
    /\ \E p \in ValidPhrases : \E k \in 0..((Len(p) \div 3) - 1) :
            fn_phrase = FlipChecksumBit(p, k)
    /\ fn_ret.tag = "Ok"
    /\ fn_calls = << "try_bip39_english", "decode_mnemonic_ignore_checksum" >>

\* C6 as stated: with ignore_checksum every phrase of known words and valid
\* count n gives ceil(11n/8) bytes, whether or not its checksum is right.
C6_AlwaysFullPacking ==
    (CalledProcess /\ fn_ignore_checksum /\ AllKnown(fn_phrase) /\ CountValid(fn_phrase)) =>
        /\ fn_ret.tag = "Ok"
        /\ ByteCount(fn_ret.v, fn_hex) = (Len(fn_phrase) * BitsPerWord + 7) \div 8

\* C6 amended: with ignore_checksum every phrase of known words and valid
\* count n succeeds; it gives ceil(11n/8) bytes (all bits) when its checksum
\* is wrong and the standard 4n/3 bytes (as without the flag) when it is right.
C6_FullPackingUnlessValid ==
    (CalledProcess /\ fn_ignore_checksum /\ AllKnown(fn_phrase) /\ CountValid(fn_phrase)) =>
        /\ fn_ret.tag = "Ok"
        /\ ByteCount(fn_ret.v, fn_hex) =
                IF ChecksumOk(fn_phrase) THEN (Len(fn_phrase) \div 3) * 4
                ELSE (Len(fn_phrase) * BitsPerWord + 7) \div 8
        /\ fn_ret.v = render(IF ChecksumOk(fn_phrase) THEN bip39_entropy(fn_phrase)
                             ELSE FullPacking(fn_phrase), fn_hex)

\* a valid 12-word phrase gave 16 bytes with ignore_checksum
C6_Witness ==
    /\ CalledProcess
    /\ fn_ignore_checksum
    /\ Len(fn_phrase) = 12
    /\ StrictOk(fn_phrase)
    /\ fn_ret.tag = "Ok"
    /\ ByteCount(fn_ret.v, fn_hex) = 16

ErrorClass(ret) ==
    CASE ret.v.fmt = "InvalidWords" -> "unknown_words"
      [] ret.v.fmt \in {"WrongWordCount", "UnsupportedWordCount"} -> "invalid_word_count"
      [] ret.v.fmt = "BadChecksum" -> "checksum_mismatch"
      [] OTHER -> "other"

\* C7: with or without ignore_checksum a failure of process_mnemonic is
\* classified by priority: unknown words if any token is unknown; else invalid
\* word count, with the count, if the count is not 12/15/18/21/24; the
\* checksum classification only for known words, valid count, no ignore_checksum.
C7_ClassificationPriority ==
    CalledProcess =>
        /\ ~AllKnown(fn_phrase) =>
                fn_ret.tag = "Err" /\ ErrorClass(fn_ret) = "unknown_words"
        /\ (AllKnown(fn_phrase) /\ ~CountValid(fn_phrase)) =>
                /\ fn_ret.tag = "Err"
                /\ ErrorClass(fn_ret) = "invalid_word_count"
                /\ fn_ret.v.args = << Len(fn_phrase) >>
        /\ (fn_ret.tag = "Err" /\ ErrorClass(fn_ret) = "checksum_mismatch") =>
                /\ AllKnown(fn_phrase) /\ CountValid(fn_phrase)
                /\ ~fn_ignore_checksum
                /\ fn_calls[1] = "try_bip39_english"
        /\ fn_ret.tag = "Err" => ErrorClass(fn_ret) # "other"

\* a phrase with an unknown token and a bad count was classified by its words
C7_Witness ==
    /\ CalledProcess
    /\ fn_ignore_checksum
    /\ ~AllKnown(fn_phrase)
    /\ Len(fn_phrase) \in 1..MaxShort
    /\ fn_ret.tag = "Err"
    /\ ErrorClass(fn_ret) = "unknown_words"

UnknownOf(words) == {words[i] : i \in {j \in 1..Len(words) : words[j] \notin 0..(WordListLen - 1)}}

\* the tokens a diagnostic of invalid words names
NamedIn(ret) == IF ret.v.fmt = "InvalidWords" THEN Range(ret.v.args[1]) ELSE {}

\* the i-th token of words is unknown and at most two unknown ones precede it
AmongFirstUnknown(words, i) ==
    /\ words[i] \notin 0..(WordListLen - 1)
    /\ Cardinality({j \in 1..(i - 1) : words[j] \notin 0..(WordListLen - 1)})
            < ShownInvalidWords

\* C8 as stated: a phrase with an unknown token fails with or without
\* ignore_checksum, and the diagnostic names every unknown token of the phrase.
C8_NamesEveryUnknownToken ==
    (CalledProcess /\ ~AllKnown(fn_phrase)) =>
        /\ fn_ret.tag = "Err"
        /\ UnknownOf(fn_phrase) \subseteq NamedIn(fn_ret)

\* C8 amended: a phrase with an unknown token fails with or without
\* ignore_checksum, and the diagnostic names the first three unknown tokens of
\* the phrase in their order (each one as often as it occurs there) and no other.
C8_NamesFirstThreeUnknown ==
    (CalledProcess /\ ~AllKnown(fn_phrase)) =>
        /\ fn_ret.tag = "Err"
        /\ fn_ret.v.fmt = "InvalidWords"
        /\ fn_ret.v.args[1] =
                SelectSeq([i \in 1..Len(fn_phrase) |->
                                IF AmongFirstUnknown(fn_phrase, i) THEN fn_phrase[i] ELSE 0],
                          LAMBDA w : w \notin 0..(WordListLen - 1))
        /\ \A i \in 1..Len(fn_phrase) :
                AmongFirstUnknown(fn_phrase, i) => fn_phrase[i] \in NamedIn(fn_ret)

\* a phrase with a fourth, different unknown token: the diagnostic names three
C8_Witness ==
    /\ CalledProcess
    /\ Cardinality({i \in 1..Len(fn_phrase) : fn_phrase[i] \notin 0..(WordListLen - 1)}) > 3
    /\ fn_ret.tag = "Err"
    /\ Len(fn_ret.v.args[1]) = ShownInvalidWords
    /\ ~(UnknownOf(fn_phrase) \subseteq NamedIn(fn_ret))

\* the value, modulo m, of the number whose digits in base `base` are digits[1..n]
RECURSIVE ModValue(_, _, _, _)
ModValue(digits, n, base, m) ==
    IF n = 0 THEN 0
    ELSE (ModValue(digits, n - 1, base, m) * base + digits[n]) % m

RECURSIVE ModPower(_, _, _)
ModPower(b, e, m) == IF e = 0 THEN 1 ELSE (ModPower(b, e - 1, m) * b) % m

\* moduli small enough for the products to stay below 2^31
Moduli == {1021, 1019, 1013}

\* C10: the bits of decode_mnemonic_ignore_checksum are the 11 binary digits
\* of each word index in phrase order, and byte b of its result has bit
\* 8b + j of them at position 7 - j, zero past the end; read as one number the
\* bytes are the concatenated indices shifted left by the padding.
C10_ExactPacking ==
    (fn_called = "decode_mnemonic_ignore_checksum" /\ AllKnown(fn_phrase)) =>
        LET n == Len(fn_phrase)
            bits == indices_to_bits(fn_phrase)
        IN  /\ DOMAIN bits = 0..(BitsPerWord * n - 1)
            /\ \A w \in 0..(n - 1) : \A j \in 0..(BitsPerWord - 1) :
                    bits[BitsPerWord * w + j]
                        <=> ((fn_phrase[w + 1] \div (2 ^ (10 - j))) % 2 = 1)
            /\ CountValid(fn_phrase) =>
                /\ fn_ret.tag = "Ok"
                /\ Len(fn_ret.v) = (BitsPerWord * n + 7) \div 8
                /\ \A b \in 0..(Len(fn_ret.v) - 1) : \A j \in 0..7 :
                        ((fn_ret.v[b + 1] \div (2 ^ (7 - j))) % 2 = 1)
                            <=> (8 * b + j < BitsPerWord * n /\ bits[8 * b + j])
                /\ \A m \in Moduli :
                        ModValue(fn_ret.v, Len(fn_ret.v), 256, m)
                            = (ModValue(fn_phrase, n, WordListLen, m)
                                * ModPower(2, 8 * Len(fn_ret.v) - BitsPerWord * n, m)) % m

\* a 15-word phrase was packed: 165 bits in 21 bytes, three bits of padding
C10_Witness ==
    /\ fn_called = "decode_mnemonic_ignore_checksum"
    /\ AllKnown(fn_phrase)
    /\ Len(fn_phrase) = 15
    /\ fn_ret.tag = "Ok"
    /\ Len(fn_ret.v) = 21
    /\ \E i \in 1..15 : fn_phrase[i] % 2 = 1

\* ------------------------------------------------------------------------
\* main
\* ------------------------------------------------------------------------
Init ==
    /\ FnIdle
    /\ args \in ArgsSet
    /\ input \in Inputs
    /\ pc = "start"
    /\ mnemonics = << >>
    /\ progress_bar = None
    /\ pending = {}
    /\ running = {}
    /\ results = << >>
    /\ sorted_results = << >>
    /\ success_results = << >>
    /\ error_results = << >>
    /\ stdout = << >>
    /\ stderr = << >>
    /\ files = [output |-> None, error_log |-> None]
    /\ exit_code = None

NonBlank(line) == line # << >>

\* std::process::exit(code), or the panic of expect (101)
Exits(code, message) ==
    /\ pc' = "exited"
    /\ exit_code' = Some(code)
    /\ stderr' = Append(stderr, message)

\* let mnemonics = ...; let total_count = ...; let progress_bar = ...
LoadInput ==
    /\ pc = "start"
    /\ \E read_ok \in BOOLEAN :
         IF read_ok
         THEN LET loaded == IF input.kind = "input_file"
                            THEN SelectSeq(input.text, NonBlank)
                            ELSE << input.text >>
                  total_count == Len(loaded)
              IN  /\ mnemonics' = loaded
                  /\ stdout' = IF input.kind = "input_file" /\ args.output_file
                               THEN Append(stdout, Message("Loaded", << total_count >>))
                               ELSE IF input.kind = "stdin"
                               THEN Append(stdout, Message("Prompt", << >>))
                               ELSE stdout
                  /\ progress_bar' = IF args.output_file /\ total_count > 1
                                     THEN Some(0) ELSE None
                  /\ pending' = 0..(total_count - 1)
                  /\ pc' = "parallel"
                  /\ UNCHANGED << stderr, exit_code >>
         ELSE /\ input.kind # "mnemonic"
              /\ IF input.kind = "input_file"
                 THEN /\ Exits(1, Message("ReadFileFailed", << >>))
                      /\ UNCHANGED stdout
                 ELSE /\ Exits(101, Message("ReadLineFailed", << >>))
                      /\ stdout' = Append(stdout, Message("Prompt", << >>))
              /\ UNCHANGED << mnemonics, progress_bar, pending >>
    /\ input' = [input EXCEPT !.text = << >>]
    /\ UNCHANGED << fn_vars, args, running, results, sorted_results,
                    success_results, error_results, files >>

\* a worker of the pool takes an item; rayon hands the items out in no
\* order the program may rely on
Start(idx) ==
    /\ pc = "parallel"
    /\ idx \in pending
    /\ Cardinality(running) < PoolSize
    /\ pending' = pending \ {idx}
    /\ running' = running \cup {idx}
    /\ UNCHANGED << fn_vars, args, input, pc, mnemonics, progress_bar,
                    results, sorted_results, success_results, error_results,
                    stdout, stderr, files, exit_code >>

\* the closure returns: pb.inc(1); (idx, result).  The order in which the
\* pairs reach `results` is taken to be the order of completion.
Finish(idx) ==
    /\ pc = "parallel"
    /\ idx \in running
    /\ running' = running \ {idx}
    /\ results' = Append(results,
                    map_closure(idx, mnemonics[idx + 1], args.hex, args.ignore_checksum))
    /\ progress_bar' = IF progress_bar # None THEN Some(progress_bar[1] + 1) ELSE None
    /\ UNCHANGED << fn_vars, args, input, pc, mnemonics, pending,
                    sorted_results, success_results, error_results,
                    stdout, stderr, files, exit_code >>

\* pb.finish_and_clear(); the sort by index; the loop over the sorted results
Collect ==
    /\ pc = "parallel"
    /\ pending = {}
    /\ running = {}
    /\ progress_bar' = None
    /\ LET sorted == sort_by_key(results)
           parts == partition(sorted, 1,
                        [success_results |-> << >>, error_results |-> << >>,
                         out |-> stdout, err |-> stderr],
                        mnemonics, ~args.output_file)
       IN  /\ sorted_results' = sorted
           /\ success_results' = parts.success_results
           /\ error_results' = parts.error_results
           /\ stdout' = parts.out
           /\ stderr' = parts.err
    /\ pc' = "write_output"
    /\ UNCHANGED << fn_vars, args, input, mnemonics, pending, running,
                    results, files, exit_code >>

\* if let Some(output_path) = &args.output_file { ... }
WriteOutput ==
    /\ pc = "write_output"
    /\ results' = << >>
    /\ IF ~args.output_file
       THEN /\ pc' = "write_error_log"
            /\ UNCHANGED << stdout, stderr, files, exit_code >>
       ELSE \E io \in {"ok", "create_failed", "write_failed"} :
              CASE io = "create_failed" ->
                     /\ Exits(1, Message("CreateOutputFailed", << >>))
                     /\ UNCHANGED << stdout, files >>
                [] io = "write_failed" ->
                     /\ \E written \in 0..(Len(success_results) - 1) :
                            files' = [files EXCEPT
                                        !.output = Some(SubSeq(success_results, 1, written))]
                     /\ Exits(1, Message("WriteOutputFailed", << >>))
                     /\ UNCHANGED stdout
                [] OTHER ->
                     /\ files' = [files EXCEPT !.output = Some(success_results)]
                     /\ stdout' = stdout
                            \o << Message("Saved", << >>),
                                  Message("SavedCount", << Len(success_results) >>) >>
                            \o (IF error_results # << >>
                                THEN << Message("ErrorCount", << Len(error_results) >>) >>
                                ELSE << >>)
                     /\ pc' = "write_error_log"
                     /\ UNCHANGED << stderr, exit_code >>
    /\ UNCHANGED << fn_vars, args, input, mnemonics, progress_bar, pending,
                    running, sorted_results, success_results, error_results >>

\* if let Some(error_log_path) = &args.error_log { if !error_results.is_empty() { ... } }
WriteErrorLog ==
    /\ pc = "write_error_log"
    /\ IF ~(args.error_log /\ error_results # << >>)
       THEN /\ pc' = "advise"
            /\ UNCHANGED << stdout, stderr, files, exit_code >>
       ELSE LET lines == [k \in 1..Len(error_results) |->
                            error_log_line(error_results[k], args.verbose_errors)]
            IN  \E io \in {"ok", "create_failed", "write_failed"} :
                  CASE io = "create_failed" ->
                         /\ Exits(1, Message("CreateErrorLogFailed", << >>))
                         /\ UNCHANGED << stdout, files >>
                    [] io = "write_failed" ->
                         /\ \E written \in 0..(Len(lines) - 1) :
                                files' = [files EXCEPT
                                            !.error_log = Some(SubSeq(lines, 1, written))]
                         /\ Exits(1, Message("WriteErrorLogFailed", << >>))
                         /\ UNCHANGED stdout
                    [] OTHER ->
                         /\ files' = [files EXCEPT !.error_log = Some(lines)]
                         /\ stdout' = Append(stdout, Message("ErrorLogSaved", << >>))
                         /\ pc' = "advise"
                         /\ UNCHANGED << stderr, exit_code >>
    /\ UNCHANGED << fn_vars, args, input, mnemonics, progress_bar, pending,
                    running, results, sorted_results, success_results, error_results >>

\* the warning that the input may not be BIP39
Advise ==
    /\ pc = "advise"
    /\ stdout' = IF shows_advisory(args.skip_invalid, Len(error_results), Len(mnemonics))
                 THEN Append(stdout,
                        Message("Advisory", << Len(error_results), Len(mnemonics) >>))
                 ELSE stdout
    /\ pc' = "decide"
    /\ UNCHANGED << fn_vars, args, input, mnemonics, progress_bar, pending,
                    running, results, sorted_results, success_results, error_results,
                    stderr, files, exit_code >>

\* exit(1) when everything failed, else main returns
Exit ==
    /\ pc = "decide"
    /\ IF all_failed(args.skip_invalid, Len(error_results), Len(success_results))
       THEN Exits(1, Message("AllFailed", << >>))
       ELSE /\ pc' = "exited"
            /\ exit_code' = Some(0)
            /\ UNCHANGED stderr
    /\ UNCHANGED << fn_vars, args, input, mnemonics, progress_bar, pending,
                    running, results, sorted_results, success_results, error_results,
                    stdout, files >>

Next ==
    \/ LoadInput
    \/ \E idx \in 0..(Len(mnemonics) - 1) : Start(idx)
    \/ \E idx \in 0..(Len(mnemonics) - 1) : Finish(idx)
    \/ Collect
    \/ WriteOutput
    \/ WriteErrorLog
    \/ Advise
    \/ Exit

Spec == Init /\ [][Next]_vars

\* ------------------------------------------------------------------------
\* Properties of main
\* ------------------------------------------------------------------------
\* the parallel region is over and main has not exited
Collected == pc \in {"write_output", "write_error_log", "advise", "decide"}

\* what process_mnemonic gives for the i-th phrase (from 1) under the flags
Decoded(i) == process_mnemonic_once(mnemonics[i], args.hex, args.ignore_checksum)

FailedPhrases == {i \in 1..Len(mnemonics) : Decoded(i).tag = "Err"}

IoMessages ==
    {"ReadFileFailed", "ReadLineFailed", "CreateOutputFailed", "WriteOutputFailed",
     "CreateErrorLogFailed", "WriteErrorLogFailed"}

\* main was ended by a failure to read or write
IoFailed == \E i \in 1..Len(stderr) : stderr[i].fmt \in IoMessages

\* C1: whatever order the workers deliver in, after the sort the k-th element
\* carries index k (from 0) and the outcome of the k-th phrase.
C1_OrderPreserved ==
    Collected =>
        /\ Len(sorted_results) = Len(mnemonics)
        /\ \A k \in 1..Len(sorted_results) :
                /\ sorted_results[k][1] = k - 1
                /\ sorted_results[k][2] =
                        IF Decoded(k).tag = "Ok" THEN Success(Decoded(k).v)
                        ELSE Error(Decoded(k).v, mnemonics[k])

\* three or more results were delivered out of order and then sorted
C1_Witness ==
    /\ pc = "write_output"
    /\ Len(results) >= 3
    /\ results[1][1] > results[2][1]
    /\ results # sorted_results
    /\ sorted_results[1][1] = 0

\* C2: every phrase gets exactly one outcome, a failure is recorded for its
\* phrase alone and the others are still processed, so that successes and
\* failures add up to the number of phrases.
C2_OneOutcomePerPhrase ==
    /\ pc = "parallel" =>
            \A idx \in 0..(Len(mnemonics) - 1) :
                Cardinality({k \in 1..Len(results) : results[k][1] = idx})
                    = (IF idx \in pending \cup running THEN 0 ELSE 1)
    /\ Collected =>
            /\ Len(success_results) + Len(error_results) = Len(mnemonics)
            /\ Len(error_results) = Cardinality(FailedPhrases)
            /\ \A i \in FailedPhrases :
                    error_results[Cardinality({j \in FailedPhrases : j <= i})]
                        = << mnemonics[i], Decoded(i).v >>
            /\ \A i \in (1..Len(mnemonics)) \ FailedPhrases :
                    success_results[Cardinality({j \in 1..i : j \notin FailedPhrases})]
                        = Decoded(i).v

\* a batch whose first phrase failed and whose last phrase succeeded
C2_Witness ==
    /\ Collected
    /\ Len(mnemonics) >= 3
    /\ 1 \in FailedPhrases
    /\ Len(mnemonics) \notin FailedPhrases
    /\ Len(success_results) >= 1
    /\ Len(error_results) >= 1

\* C3: when no read or write failed, main exits with failure exactly when
\* there is a phrase, none succeeded and skip_invalid is not set; the batch of
\* three valid phrases and two with an unknown word exits with success, three
\* results and two errors.
C3_ExitStatus ==
    (pc = "exited" /\ ~IoFailed) =>
        /\ exit_code = Some(IF /\ Len(mnemonics) > 0
                               /\ Cardinality(FailedPhrases) = Len(mnemonics)
                               /\ ~args.skip_invalid
                            THEN 1 ELSE 0)
        /\ mnemonics = BulkScenario =>
                /\ exit_code = Some(0)
                /\ Len(success_results) = 3
                /\ Len(error_results) = 2

\* the batch of three valid and two invalid phrases, skip_invalid not set
C3_Witness ==
    /\ pc = "exited"
    /\ ~IoFailed
    /\ mnemonics = BulkScenario
    /\ ~args.skip_invalid
    /\ exit_code = Some(0)
    /\ Len(error_results) = 2

AdvisoryShown == \E i \in 1..Len(stdout) : stdout[i].fmt = "Advisory"

\* main is past the advisory and was not ended by a failure to read or write
AfterAdvise == pc = "decide" \/ (pc = "exited" /\ ~IoFailed)

\* C9 as stated: the advisory is shown exactly when a phrase failed and more
\* than half of the phrases failed, whatever else holds.
C9_AdvisoryFromCountsOnly ==
    AfterAdvise =>
        (AdvisoryShown <=>
            /\ Cardinality(FailedPhrases) >= 1
            /\ 2 * Cardinality(FailedPhrases) > Len(mnemonics))

\* C9 amended: the advisory is shown exactly when skip_invalid is not set, a
\* phrase failed and more than half of the phrases failed; never before.
C9_AdvisoryUnlessSkipInvalid ==
    /\ AfterAdvise =>
            (AdvisoryShown <=>
                /\ ~args.skip_invalid
                /\ Cardinality(FailedPhrases) >= 1
                /\ 2 * Cardinality(FailedPhrases) > Len(mnemonics))
    /\ pc \in {"start", "parallel", "write_output", "write_error_log", "advise"} =>
            ~AdvisoryShown

\* two of three phrases failed and the advisory was shown
C9_Witness ==
    /\ AfterAdvise
    /\ AdvisoryShown
    /\ Len(mnemonics) = 3
    /\ Cardinality(FailedPhrases) = 2

====
